---- MODULE Spec2Model ----
(***************************************************************************)
(* Model of the two-tier read-through cache of src/routes/meta/tmdb.ts     *)
(* (getCacheKey, cacheWrapper, fetchAndCache and the route handlers that   *)
(* build the cache keys), and of the replies sent by the route handlers of *)
(* src/routes/movies/dramacool.ts.                                         *)
(*                                                                         *)
(* Spec      cacheWrapper, with or without redis, clock of two points      *)
(* SpecKey   the route handlers up to the cache key they build             *)
(* SpecLru   the LRUCache class with a small max                           *)
(* SpecTtl   cacheWrapper without redis on a finer clock                   *)
(* SpecStale cacheWrapper with redis on a finer clock                      *)
(* SpecReply the replies of the dramacool handlers and of fetchAndCache    *)
(*                                                                         *)
(* LocalTier  = fastify.memoryCache (lru-cache, max 1000, ttl CACHE_TTL s) *)
(* SharedTier = fastify.redis (ioredis client, or null when unconfigured)  *)
(* resolve    = cacheWrapper, called by fetchAndCache                      *)
(* labels     = the X-Cache header: HIT-MEMORY (MEMORY), HIT-REDIS         *)
(*              (SHARED), MISS                                             *)
(***************************************************************************)
EXTENDS Integers, Sequences, FiniteSets, TLC

(***************************************************************************)
(* Bounds of the model.                                                    *)
(***************************************************************************)
NumReqs == 2      \* resolve calls (HTTP requests) that may be in flight
NumKeys == 2      \* distinct cache keys
NumVals == 2      \* distinct result objects a loader can return
TickStep == 3600  \* seconds the clock advances in one Tick (past both ttls)
MaxNow == 3600    \* the clock stops advancing once it reaches this
MaxBagLen == 2    \* properties in a parameter bag given to getCacheKey
NumLruKeys == 4   \* keys used on the small cache (A, B, C, D)
LruMax == 2       \* max of the small cache
MaxOps == 5       \* get and set calls made on the small cache
FineStep == 900   \* seconds the clock advances in one TickFine
MaxFineNow == 4500  \* the fine clock stops advancing once it reaches this

ReqIds == 1..NumReqs
Keys == 1..NumKeys
LruKeys == 1..NumLruKeys

(***************************************************************************)
(* JavaScript values, tagged by type.                                      *)
(***************************************************************************)
Undefined == [t |-> "undefined"]
Null == [t |-> "null"]
Str(s) == [t |-> "str", s |-> s]
Num(n) == [t |-> "num", n |-> n]
\* an object: its own properties <<[name, value], ...>> in insertion order
Obj(props) == [t |-> "obj", props |-> props]
Prop(name, value) == [name |-> name, value |-> value]

\* The result objects of the loaders (tmdb.search, fetchMediaInfo,
\* fetchTrending, fetchEpisodeSources resolve with result objects): { id: i }
ResultObject(i) == Obj(<<Prop("id", Num(i))>>)
Values == { ResultObject(i) : i \in 1..NumVals }

\* JavaScript truthiness, as used by `if (memoryCachedData)` and
\* `if (cachedData)`.
Truthy(x) ==
  CASE x.t = "undefined" -> FALSE
    [] x.t = "null" -> FALSE
    [] x.t = "str" -> x.s # ""
    [] x.t = "num" -> x.n # 0
    [] OTHER -> TRUE

\* JSON.stringify(x): the JSON text of a string, a number, null or an object.
\* An object's properties appear in insertion order; a property whose value
\* is undefined is left out.
RECURSIVE JSONstringify(_), JSONproperties(_)
JSONstringify(x) ==
  CASE x.t = "str" -> ToString(x.s)
    [] x.t = "num" -> ToString(x.n)
    [] x.t = "null" -> "null"
    [] x.t = "obj" ->
         "{" \o JSONproperties(SelectSeq(x.props,
                                 LAMBDA p : p.value # Undefined)) \o "}"

JSONproperties(props) ==
  IF props = <<>> THEN ""
  ELSE ToString(Head(props).name) \o ":" \o JSONstringify(Head(props).value)
       \o (IF Len(props) > 1 THEN "," ELSE "")
       \o JSONproperties(Tail(props))

\* The texts JSON.parse accepts, and what it returns for them.  Any other
\* text makes JSON.parse throw a SyntaxError.
ValueText == [v \in Values |-> JSONstringify(v)]
Parses(s) == \E v \in Values : ValueText[v] = s
JSONparse(s) == CHOOSE v \in Values : ValueText[v] = s

\* A text that is not JSON (a truncated document).
CorruptRaw == "{\"id\":"

(***************************************************************************)
(* Program constants.                                                      *)
(***************************************************************************)
CACHE_TTL == 1800
MemMax == 1000
MemTtlMs == CACHE_TTL * 1000

DefaultPage == 1

(***************************************************************************)
(* CacheKeyBuilder.                                                        *)
(***************************************************************************)
\* Faulty variant: the route name is left out of the key
getCacheKeyNoRoute(route, params) ==
  "tmdb:" \o JSONstringify(params)

\* getCacheKey(route, params): `tmdb:${route}:${JSON.stringify(params)}`
getCacheKey(route, params) ==
  "tmdb:" \o route \o ":" \o JSONstringify(params)

(***************************************************************************)
(* State.                                                                  *)
(***************************************************************************)
VARIABLES
  now,          \* wall clock, in seconds
  redisCfg,     \* fastify.redis is not null
  memoryCache,  \* LRUCache: sequence of entries, least recently used first
  redisStore,   \* contents of the redis server: key -> entry or NoEntry
  redisSet,     \* the SET command each request has in flight, or NoCmd
  req,          \* per request: position in cacheWrapper and its reply
  hist,         \* history: what each request did and saw (observation only)
  keyReq,       \* the requests whose cache keys are compared: slot -> request
  lruOps,       \* history: the get and set calls made on a cache of max LruMax
  dramaReq      \* per request to a dramacool route: position and sends

cacheVars == <<now, redisCfg, memoryCache, redisStore, redisSet, req, hist>>
otherVars == <<keyReq, lruOps, dramaReq>>
vars == <<now, redisCfg, memoryCache, redisStore, redisSet, req, hist, keyReq,
          lruOps, dramaReq>>

\* Faulty variant: the client used without checking that it is configured
HasRedisUnchecked == TRUE

\* `if (fastify.redis)`
HasRedis == redisCfg

NoEntry == [raw |-> "", exp |-> 0]
NoCmd == [key |-> 0, raw |-> ""]

(***************************************************************************)
(* LocalTier: lru-cache with { max, ttl }, default options otherwise       *)
(* (allowStale false, updateAgeOnGet false).                               *)
(***************************************************************************)
MemIndex(cache, k) ==
  IF \E i \in 1..Len(cache) : cache[i].key = k
  THEN CHOOSE i \in 1..Len(cache) : cache[i].key = k
  ELSE 0

Without(cache, i) ==
  [j \in 1..(Len(cache) - 1) |-> IF j < i THEN cache[j] ELSE cache[j + 1]]

\* Faulty variant: entries never become stale (no ttl)
IsStaleNever(e, t) == FALSE

\* an entry is stale once its age exceeds the ttl
IsStale(e, t) == (t - e.start) * 1000 > MemTtlMs

\* Faulty variant: the lookup never finds the entry
LruGetValueMiss(cache, k, t) == Undefined

\* memoryCache.get(k): the value returned
LruGetValue(cache, k, t) ==
  LET i == MemIndex(cache, k)
  IN IF i = 0 \/ IsStale(cache[i], t) THEN Undefined ELSE cache[i].value

\* Faulty variant: a hit does not refresh the entry's recency
LruGetCacheNoTouch(cache, k, t) ==
  LET i == MemIndex(cache, k)
  IN IF i = 0 THEN cache
     ELSE IF IsStale(cache[i], t) THEN Without(cache, i)
     ELSE cache

\* Faulty variant: a hit restarts the entry's age (updateAgeOnGet)
LruGetCacheUpdateAge(cache, k, t) ==
  LET i == MemIndex(cache, k)
  IN IF i = 0 THEN cache
     ELSE IF IsStale(cache[i], t) THEN Without(cache, i)
     ELSE Append(Without(cache, i), [cache[i] EXCEPT !.start = t])

\* memoryCache.get(k): the cache afterwards (a stale entry is deleted, a hit
\* becomes the most recently used entry and keeps its start time)
LruGetCache(cache, k, t) ==
  LET i == MemIndex(cache, k)
  IN IF i = 0 THEN cache
     ELSE IF IsStale(cache[i], t) THEN Without(cache, i)
     ELSE Append(Without(cache, i), cache[i])

\* Faulty variant: the value is never stored
LruSetDropped(cache, k, v, t) == cache

\* Faulty variant: an entry already present is kept (the first writer wins)
LruSetKeepFirst(cache, k, v, t) ==
  LET i == MemIndex(cache, k)
      e == [key |-> k, value |-> v, start |-> t]
  IN IF i # 0 THEN cache
     ELSE IF Len(cache) >= MemMax THEN Append(Tail(cache), e)
     ELSE Append(cache, e)

\* set(k, v) on an LRUCache constructed with { max }: the cache afterwards
LruSetMax(cache, k, v, t, max) ==
  LET i == MemIndex(cache, k)
      e == [key |-> k, value |-> v, start |-> t]
  IN IF v = Undefined
     THEN (IF i = 0 THEN cache ELSE Without(cache, i))
     ELSE IF i # 0 THEN Append(Without(cache, i), e)
     ELSE IF Len(cache) >= max THEN Append(Tail(cache), e)
     ELSE Append(cache, e)

\* memoryCache.set(k, v): the cache afterwards
LruSet(cache, k, v, t) == LruSetMax(cache, k, v, t, MemMax)

\* Observation: the value of the entry stored for k at most CACHE_TTL seconds
\* before t, or Undefined when the cache holds no such entry
FreshValue(cache, k, t) ==
  IF \E i \in 1..Len(cache) :
       cache[i].key = k /\ t - cache[i].start <= CACHE_TTL
  THEN cache[MemIndex(cache, k)].value
  ELSE Undefined

(***************************************************************************)
(* SharedTier: the redis server.                                           *)
(***************************************************************************)
\* GET key: the stored text, or null when absent or expired
RedisGetValue(store, k, t) ==
  IF store[k] = NoEntry \/ t >= store[k].exp THEN Null ELSE Str(store[k].raw)

\* Faulty variant: the entry is written under the next key
RedisSetStoreOtherKey(store, k, raw, ttl, t) ==
  [store EXCEPT ![(k % NumKeys) + 1] = [raw |-> raw, exp |-> t + ttl]]

\* SET key raw EX ttl
RedisSetStore(store, k, raw, ttl, t) ==
  [store EXCEPT ![k] = [raw |-> raw, exp |-> t + ttl]]

(***************************************************************************)
(* Requests.  A request runs fetchAndCache once: pc is where its           *)
(* cacheWrapper call is suspended (at `await redis.get` or at              *)
(* `await fetchData()`), or "done" once its reply has been sent.           *)
(***************************************************************************)
IdleReq == [pc |-> "idle", key |-> 0, xcache |-> "none", status |-> 0,
            body |-> Undefined, sends |-> 0]

IdleHist == [quietAtBeg |-> FALSE,
             memAtBeg |-> Undefined, shAtBeg |-> Null, setsAtBeg |-> FALSE,
             redisGets |-> 0, getFailed |-> FALSE, gotRaw |-> Undefined,
             loaderCalls |-> 0,
             loaded |-> Undefined, memSets |-> 0, redisSets |-> 0,
             setFailed |-> FALSE,
             memAfter |-> Undefined, err |-> "none"]

\* a request to a dramacool route: sent lists the status of every reply.send
IdleDrama == [pc |-> "idle", route |-> "none", sent |-> <<>>]

ErrorMessage == Str("An unexpected error occurred. Please try again later.")

\* handleErrors(reply, error): reply.status(500).send({ message })
handleErrors(r, error, h) ==
  /\ req' = [req EXCEPT ![r].pc = "done", ![r].status = 500,
                        ![r].body = ErrorMessage, ![r].sends = @ + 1]
  /\ hist' = [h EXCEPT ![r].err = error,
                       ![r].memAfter =
                           FreshValue(memoryCache', req[r].key, now)]

\* Faulty variant: every reply that cacheWrapper did not label at once is
\* labelled MISS
replySendMiss(r, label, res, h) ==
  /\ req' = [req EXCEPT ![r].pc = "done", ![r].xcache = "MISS",
                        ![r].status = 200, ![r].body = res,
                        ![r].sends = @ + 1]
  /\ hist' = [h EXCEPT ![r].memAfter =
                           FreshValue(memoryCache', req[r].key, now)]

\* cacheWrapper returned res with header label; fetchAndCache: reply.send(res)
replySend(r, label, res, h) ==
  /\ req' = [req EXCEPT ![r].pc = "done", ![r].xcache = label,
                        ![r].status = 200, ![r].body = res,
                        ![r].sends = @ + 1]
  /\ hist' = [h EXCEPT ![r].memAfter =
                           FreshValue(memoryCache', req[r].key, now)]

\* A request for key k arrives: fetchAndCache calls cacheWrapper, which runs
\* up to its first await.
Start(r, k) ==
  /\ req[r].pc = "idle"
  /\ \A q \in ReqIds : q < r => req[q].pc # "idle"
  /\ LET memoryCachedData == LruGetValue(memoryCache, k, now)
         h == [hist EXCEPT
                 ![r].quietAtBeg =
                     \A q \in ReqIds : req[q].pc \in {"idle", "done"},
                 ![r].memAtBeg = FreshValue(memoryCache, k, now),
                 ![r].shAtBeg = RedisGetValue(redisStore, k, now),
                 ![r].setsAtBeg =
                     \E q \in ReqIds : redisSet[q] # NoCmd /\ redisSet[q].key = k]
     IN /\ memoryCache' = LruGetCache(memoryCache, k, now)
        /\ IF Truthy(memoryCachedData)
           THEN /\ req' = [req EXCEPT ![r] =
                     [pc |-> "done", key |-> k, xcache |-> "HIT-MEMORY",
                      status |-> 200, body |-> memoryCachedData,
                      sends |-> 1]]
                /\ hist' = [h EXCEPT ![r].memAfter =
                                  FreshValue(memoryCache', k, now)]
           ELSE IF HasRedis
           THEN /\ req' = [req EXCEPT ![r].pc = "awaitGet", ![r].key = k]
                /\ hist' = [h EXCEPT ![r].redisGets = @ + 1]
           ELSE /\ req' = [req EXCEPT ![r].pc = "awaitFetch", ![r].key = k,
                                      ![r].xcache = "MISS"]
                /\ hist' = [h EXCEPT ![r].loaderCalls = @ + 1]
  /\ UNCHANGED <<otherVars, now, redisCfg, redisStore, redisSet>>

\* Faulty variant: a SharedTier hit writes the entry back, restarting its
\* expiry
RedisGetResolveRefresh(r) ==
  /\ req[r].pc = "awaitGet"
  /\ LET k == req[r].key
         cachedData == RedisGetValue(redisStore, k, now)
         h == [hist EXCEPT ![r].gotRaw = cachedData]
     IN IF Truthy(cachedData)
        THEN IF Parses(cachedData.s)
             THEN LET parsedData == JSONparse(cachedData.s)
                  IN /\ memoryCache' = LruSet(memoryCache, k, parsedData, now)
                     /\ redisSet' = [redisSet EXCEPT ![r] =
                                       [key |-> k, raw |-> cachedData.s]]
                     /\ replySend(r, "HIT-REDIS", parsedData,
                          [h EXCEPT ![r].memSets = @ + 1])
             ELSE /\ memoryCache' = memoryCache
                  /\ redisSet' = redisSet
                  /\ handleErrors(r, "parse", h)
        ELSE /\ req' = [req EXCEPT ![r].pc = "awaitFetch",
                                   ![r].xcache = "MISS"]
             /\ hist' = [h EXCEPT ![r].loaderCalls = @ + 1]
             /\ UNCHANGED <<memoryCache, redisSet>>
  /\ UNCHANGED <<otherVars, now, redisCfg, redisStore>>

\* `await fastify.redis.get(cacheKey)` resolves: lines 72-82
RedisGetResolve(r) ==
  /\ req[r].pc = "awaitGet"
  /\ LET k == req[r].key
         cachedData == RedisGetValue(redisStore, k, now)
         h == [hist EXCEPT ![r].gotRaw = cachedData]
     IN IF Truthy(cachedData)
        THEN IF Parses(cachedData.s)
             THEN LET parsedData == JSONparse(cachedData.s)
                  IN /\ memoryCache' = LruSet(memoryCache, k, parsedData, now)
                     /\ replySend(r, "HIT-REDIS", parsedData,
                          [h EXCEPT ![r].memSets = @ + 1])
             ELSE /\ memoryCache' = memoryCache
                  /\ handleErrors(r, "parse", h)
        ELSE /\ req' = [req EXCEPT ![r].pc = "awaitFetch",
                                   ![r].xcache = "MISS"]
             /\ hist' = [h EXCEPT ![r].loaderCalls = @ + 1]
             /\ UNCHANGED memoryCache
  /\ UNCHANGED <<otherVars, now, redisCfg, redisStore, redisSet>>

\* `await fastify.redis.get(cacheKey)` rejects (the server is unreachable):
\* the exception leaves cacheWrapper and is caught by fetchAndCache
RedisGetReject(r) ==
  /\ req[r].pc = "awaitGet"
  /\ memoryCache' = memoryCache
  /\ handleErrors(r, "redis", [hist EXCEPT ![r].getFailed = TRUE])
  /\ UNCHANGED <<otherVars, now, redisCfg, redisStore, redisSet>>

\* Faulty variant: single-flight, one loader result completes every call that
\* waits on a loader for the same key, and only the resolving call populates
FetchResolveCoalesced(r, v) ==
  /\ req[r].pc = "awaitFetch"
  /\ LET k == req[r].key
     IN /\ memoryCache' = LruSet(memoryCache, k, v, now)
        /\ redisSet' = IF HasRedis
                       THEN [redisSet EXCEPT ![r] =
                               [key |-> k, raw |-> JSONstringify(v)]]
                       ELSE redisSet
        /\ req' = [q \in ReqIds |->
                     IF req[q].pc = "awaitFetch" /\ req[q].key = k
                     THEN [req[q] EXCEPT !.pc = "done", !.xcache = "MISS",
                                         !.status = 200, !.body = v,
                                         !.sends = @ + 1]
                     ELSE req[q]]
        /\ hist' = [hist EXCEPT ![r].loaded = v, ![r].memSets = @ + 1,
                                ![r].redisSets = IF HasRedis THEN @ + 1 ELSE @,
                                ![r].memAfter = v]
  /\ UNCHANGED <<otherVars, now, redisCfg, redisStore>>

\* `await fetchData()` resolves with v: lines 84-90
FetchResolve(r, v) ==
  /\ req[r].pc = "awaitFetch"
  /\ LET k == req[r].key
     IN /\ memoryCache' = LruSet(memoryCache, k, v, now)
        /\ IF HasRedis
           THEN /\ redisSet' = [redisSet EXCEPT ![r] =
                                  [key |-> k, raw |-> JSONstringify(v)]]
                /\ replySend(r, "MISS", v,
                     [hist EXCEPT ![r].loaded = v, ![r].memSets = @ + 1,
                                  ![r].redisSets = @ + 1])
           ELSE /\ redisSet' = redisSet
                /\ replySend(r, "MISS", v,
                     [hist EXCEPT ![r].loaded = v, ![r].memSets = @ + 1])
  /\ UNCHANGED <<otherVars, now, redisCfg, redisStore>>

\* `await fetchData()` rejects: caught by fetchAndCache
FetchReject(r) ==
  /\ req[r].pc = "awaitFetch"
  /\ memoryCache' = memoryCache
  /\ handleErrors(r, "loader", hist)
  /\ UNCHANGED <<otherVars, now, redisCfg, redisStore, redisSet>>

\* The un-awaited `fastify.redis.set(cacheKey, raw, 'EX', CACHE_TTL)` reaches
\* the server
RedisSetApply(r) ==
  /\ redisSet[r] # NoCmd
  /\ redisStore' = RedisSetStore(redisStore, redisSet[r].key, redisSet[r].raw,
                                 CACHE_TTL, now)
  /\ redisSet' = [redisSet EXCEPT ![r] = NoCmd]
  /\ UNCHANGED <<otherVars, now, redisCfg, memoryCache, req, hist>>

\* Faulty variant: the set awaited inside fetchAndCache's try: its failure becomes
\* the reply
RedisSetFailPropagates(r) ==
  /\ redisSet[r] # NoCmd
  /\ redisSet' = [redisSet EXCEPT ![r] = NoCmd]
  /\ req' = [req EXCEPT ![r].status = 500, ![r].body = ErrorMessage]
  /\ hist' = [hist EXCEPT ![r].setFailed = TRUE, ![r].err = "redis"]
  /\ UNCHANGED <<otherVars, now, redisCfg, memoryCache, redisStore>>

\* The un-awaited set fails: its promise rejects with nobody awaiting it
RedisSetFail(r) ==
  /\ redisSet[r] # NoCmd
  /\ redisSet' = [redisSet EXCEPT ![r] = NoCmd]
  /\ hist' = [hist EXCEPT ![r].setFailed = TRUE]
  /\ UNCHANGED <<otherVars, now, redisCfg, memoryCache, redisStore, req>>

\* Time passes
Tick ==
  /\ now < MaxNow
  /\ now' = now + TickStep
  /\ UNCHANGED <<otherVars, redisCfg, memoryCache, redisStore, redisSet, req,
                 hist>>

(***************************************************************************)
(* Route handlers up to the cache key they build.  Two requests are        *)
(* handled, A then B; a slot holds the route, the raw request (path        *)
(* parameters and query string), the parameter bag and the cache key, or   *)
(* status 400 when the handler replied before building a key.              *)
(*                                                                         *)
(* No route declares a schema, so the query-string values reach the        *)
(* handler as the HTTP parser delivers them: texts, or undefined when      *)
(* absent.                                                                 *)
(***************************************************************************)
Slots == {"A", "B"}

PathTexts == {"a", "b"}
RawPage == {Undefined, Str("1"), Str("2")}
RawType == {Undefined, Str("all"), Str("movie")}
RawTimePeriod == {Undefined, Str("day"), Str("week"), Str("month")}
RawProvider == {Undefined, Str("flixhq")}
RawId == {Undefined, Str("a")}

VALID_TIME_PERIODS == {"day", "week"}

NoRaw == [query |-> Undefined, id |-> Undefined, episodeId |-> Undefined,
          page |-> Undefined, type |-> Undefined, provider |-> Undefined,
          qid |-> Undefined, timePeriod |-> Undefined]

NoCall == [status |-> 0]

\* `const { x = d } = request.query`: the default replaces undefined only
OrDefault(x, d) == IF x = Undefined THEN d ELSE x

\* slot s is the next one to be filled
NextSlot(s) ==
  /\ keyReq[s] = NoCall
  /\ s = "B" => keyReq["A"] # NoCall

Keyed(s, route, raw, params) ==
  keyReq' = [keyReq EXCEPT ![s] =
    [route |-> route, raw |-> raw, params |-> params,
     cacheKey |-> getCacheKey(route, params), status |-> 200]]

Rejected(s, route, raw) ==
  keyReq' = [keyReq EXCEPT ![s] =
    [route |-> route, raw |-> raw, params |-> Obj(<<>>),
     cacheKey |-> "", status |-> 400]]

\* GET /:query
SearchRoute(s, query, qpage) ==
  /\ NextSlot(s)
  /\ LET page == OrDefault(qpage, Num(DefaultPage))
     IN Keyed(s, "search",
              [NoRaw EXCEPT !.query = Str(query), !.page = qpage],
              Obj(<<Prop("query", Str(query)), Prop("page", page)>>))
  /\ UNCHANGED <<cacheVars, lruOps, dramaReq>>

\* GET /info/:id
InfoRoute(s, id, type, provider) ==
  /\ NextSlot(s)
  /\ LET raw == [NoRaw EXCEPT !.id = Str(id), !.type = type,
                              !.provider = provider]
     IN IF ~Truthy(type)
        THEN Rejected(s, "info", raw)
        ELSE Keyed(s, "info", raw,
                   Obj(<<Prop("id", Str(id)), Prop("type", type),
                         Prop("provider", provider)>>))
  /\ UNCHANGED <<cacheVars, lruOps, dramaReq>>

\* GET /trending
TrendingRoute(s, qtype, qtimePeriod, qpage) ==
  /\ NextSlot(s)
  /\ LET type == OrDefault(qtype, Str("all"))
         timePeriod == OrDefault(qtimePeriod, Str("day"))
         page == OrDefault(qpage, Num(DefaultPage))
         validTimePeriod == IF timePeriod.s \in VALID_TIME_PERIODS
                            THEN timePeriod ELSE Str("day")
     IN Keyed(s, "trending",
              [NoRaw EXCEPT !.type = qtype, !.timePeriod = qtimePeriod,
                            !.page = qpage],
              Obj(<<Prop("type", type), Prop("timePeriod", validTimePeriod),
                    Prop("page", page)>>))
  /\ UNCHANGED <<cacheVars, lruOps, dramaReq>>

\* GET /watch/:episodeId
WatchRoute(s, episodeId, id, provider) ==
  /\ NextSlot(s)
  /\ LET raw == [NoRaw EXCEPT !.episodeId = Str(episodeId), !.qid = id,
                              !.provider = provider]
     IN IF ~Truthy(id)
        THEN Rejected(s, "watch", raw)
        ELSE Keyed(s, "watch", raw,
                   Obj(<<Prop("episodeId", Str(episodeId)), Prop("id", id),
                         Prop("provider", provider)>>))
  /\ UNCHANGED <<cacheVars, lruOps, dramaReq>>

\* getCacheKey applied to a route name and a parameter bag assembled in
\* any insertion order
PropPool ==
  { Prop(n, v) : n \in {"query", "page", "provider"},
                 v \in {Str("a"), Num(1), Undefined} }

IsBag(b) == \A i, j \in 1..Len(b) : i # j => b[i].name # b[j].name

ParamBags ==
  { b \in UNION { [1..n -> PropPool] : n \in 0..MaxBagLen } : IsBag(b) }

BuildKey(s, route, bag) ==
  /\ NextSlot(s)
  /\ Keyed(s, route, NoRaw, Obj(bag))
  /\ UNCHANGED <<cacheVars, lruOps, dramaReq>>

(***************************************************************************)
(* Initial states: a fresh process (empty LRUCache, no request yet), with  *)
(* or without a redis client.  The redis server outlives the process and   *)
(* is shared: it may already hold an entry written by another instance, or *)
(* bytes that are not JSON.                                                *)
(***************************************************************************)
SeededKeys == {1}

SeedEntries ==
  {NoEntry} \cup
  { [raw |-> s, exp |-> CACHE_TTL] :
      s \in {JSONstringify(ResultObject(1)), CorruptRaw} }

Init ==
  /\ keyReq = [s \in Slots |-> NoCall]
  /\ now = 0
  /\ redisCfg \in BOOLEAN
  /\ memoryCache = <<>>
  /\ redisStore \in [Keys -> SeedEntries]
  /\ \A k \in Keys \ SeededKeys : redisStore[k] = NoEntry
  /\ (~redisCfg => redisStore = [k \in Keys |-> NoEntry])
  /\ redisSet = [r \in ReqIds |-> NoCmd]
  /\ req = [r \in ReqIds |-> IdleReq]
  /\ hist = [r \in ReqIds |-> IdleHist]
  /\ lruOps = <<>>
  /\ dramaReq = [r \in ReqIds |-> IdleDrama]

\* The keys the redis server holds nothing for are interchangeable: the
\* requests use them in increasing order
KeysInOrder(k) ==
  \A j \in Keys \ SeededKeys :
    j < k => \E q \in ReqIds : req[q].key = j

Next ==
  \/ \E r \in ReqIds, k \in Keys : KeysInOrder(k) /\ Start(r, k)
  \/ \E r \in ReqIds : RedisGetResolve(r)
  \/ \E r \in ReqIds : RedisGetReject(r)
  \/ \E r \in ReqIds, v \in Values : FetchResolve(r, v)
  \/ \E r \in ReqIds : FetchReject(r)
  \/ \E r \in ReqIds : RedisSetApply(r)
  \/ \E r \in ReqIds : RedisSetFail(r)
  \/ Tick

Spec == Init /\ [][Next]_vars

\* The key builder alone: requests handled up to their cache key
InitKey == Init /\ ~redisCfg

NextKey ==
  \/ \E s \in Slots, q \in PathTexts, p \in RawPage : SearchRoute(s, q, p)
  \/ \E s \in Slots, i \in PathTexts, t \in RawType, p \in RawProvider :
       InfoRoute(s, i, t, p)
  \/ \E s \in Slots, t \in RawType, tp \in RawTimePeriod, p \in RawPage :
       TrendingRoute(s, t, tp, p)
  \/ \E s \in Slots, e \in PathTexts, i \in RawId, p \in RawProvider :
       WatchRoute(s, e, i, p)
  \/ \E s \in Slots, route \in {"search", "info"}, bag \in ParamBags :
       BuildKey(s, route, bag)

SpecKey == InitKey /\ [][NextKey]_vars

(***************************************************************************)
(* The LRUCache class alone, constructed as on line 35 but with max LruMax *)
(* so that the capacity is reached: get and set calls as cacheWrapper      *)
(* makes them (lines 63, 74, 85), on keys 1..NumLruKeys, the clock still.  *)
(***************************************************************************)
\* memoryCache.get(k)
MemoryGet(k) ==
  /\ Len(lruOps) < MaxOps
  /\ memoryCache' = LruGetCache(memoryCache, k, now)
  /\ lruOps' = Append(lruOps, [op |-> "get", key |-> k,
                               got |-> LruGetValue(memoryCache, k, now)])
  /\ UNCHANGED <<now, redisCfg, redisStore, redisSet, req, hist, keyReq,
                 dramaReq>>

\* memoryCache.set(k, v)
MemorySet(k, v) ==
  /\ Len(lruOps) < MaxOps
  /\ memoryCache' = LruSetMax(memoryCache, k, v, now, LruMax)
  /\ lruOps' = Append(lruOps, [op |-> "set", key |-> k, got |-> v])
  /\ UNCHANGED <<now, redisCfg, redisStore, redisSet, req, hist, keyReq,
                 dramaReq>>

InitLru == Init /\ ~redisCfg

NextLru ==
  \/ \E k \in LruKeys : MemoryGet(k)
  \/ \E k \in LruKeys : MemorySet(k, ResultObject((k % NumVals) + 1))

SpecLru == InitLru /\ [][NextLru]_vars

(***************************************************************************)
(* cacheWrapper without a redis client, over a longer time on a finer      *)
(* clock.  A request slot is reused by a later request once its reply has  *)
(* been sent.  The upstream returns one object at time 0 and another one   *)
(* afterwards, so that the object of time 0 tells when it was loaded.  One  *)
(* key is followed over time.                                              *)
(***************************************************************************)
UpstreamAt(t) == IF t = 0 THEN ResultObject(1) ELSE ResultObject(2)

\* the reply of r has been sent: a later request takes its place
NewRequest(r) ==
  /\ req[r].pc = "done"
  /\ redisSet[r] = NoCmd
  /\ req' = [req EXCEPT ![r] = IdleReq]
  /\ hist' = [hist EXCEPT ![r] = IdleHist]
  /\ UNCHANGED <<otherVars, now, redisCfg, memoryCache, redisStore, redisSet>>

\* Time passes; a redis.set in flight lands or fails within one step of the
\* clock
TickFine ==
  /\ now < MaxFineNow
  /\ \A r \in ReqIds : redisSet[r] = NoCmd
  /\ now' = now + FineStep
  /\ UNCHANGED <<otherVars, redisCfg, memoryCache, redisStore, redisSet, req,
                 hist>>

InitTtl == Init /\ ~redisCfg

NextTtl ==
  \/ \E r \in ReqIds, k \in SeededKeys : Start(r, k)
  \/ \E r \in ReqIds : FetchResolve(r, UpstreamAt(now))
  \/ \E r \in ReqIds : FetchReject(r)
  \/ \E r \in ReqIds : NewRequest(r)
  \/ TickFine

SpecTtl == InitTtl /\ [][NextTtl]_vars

(***************************************************************************)
(* cacheWrapper with a redis client on the finer clock, request slots      *)
(* reused, the upstream as above.  The entry the SharedTier may hold at    *)
(* the start is the object of time 0, stored at time 0.                    *)
(***************************************************************************)
InitStale == Init /\ redisCfg

NextStale ==
  \/ \E r \in ReqIds, k \in SeededKeys : Start(r, k)
  \/ \E r \in ReqIds : RedisGetResolve(r)
  \/ \E r \in ReqIds : FetchResolve(r, UpstreamAt(now))
  \/ \E r \in ReqIds : RedisSetApply(r)
  \/ \E r \in ReqIds : RedisSetFail(r)
  \/ \E r \in ReqIds : NewRequest(r)
  \/ TickFine

SpecStale == InitStale /\ [][NextStale]_vars

(***************************************************************************)
(* The route handlers of src/routes/movies/dramacool.ts, and fetchAndCache *)
(* of tmdb.ts without a redis client, by the replies they send.  A request *)
(* slot holds one request, to either provider.  reply.send on a reply that *)
(* was already sent is logged by fastify and changes nothing on the wire;  *)
(* sent lists the status of every invocation.                              *)
(***************************************************************************)
RawServer == {Undefined, Str("mixdrop"), Str("bogus")}
KnownServers == {"asianload", "mixdrop", "streamtape", "streamsb"}

\* awaited in a try block whose catch sends 500
TryCatchRoutes == {"recent-movies", "recent-shows", "popular", "search"}
\* awaited with .catch((err) => reply.status(404).send(...)) chained
CatchChainRoutes == {"info", "watch", "servers"}

FreeSlot(r) == req[r].pc = "idle" /\ dramaReq[r].pc = "idle"

\* reply.status(status).send(...), the handler then returning
DramaReply(r, route, status) ==
  dramaReq' = [dramaReq EXCEPT ![r] =
                 [pc |-> "done", route |-> route, sent |-> <<status>>]]

\* the handler reaches its `await dramacool.fetch...`
DramaAwait(r, route) ==
  dramaReq' = [dramaReq EXCEPT ![r] =
                 [pc |-> "awaitUpstream", route |-> route, sent |-> <<>>]]

\* GET /
DramaRoot(r) ==
  /\ FreeSlot(r)
  /\ DramaReply(r, "root", 200)
  /\ UNCHANGED <<cacheVars, keyReq, lruOps>>

\* GET /recent-movies, /recent-shows, /popular, /:query
DramaList(r, route) ==
  /\ FreeSlot(r)
  /\ DramaAwait(r, route)
  /\ UNCHANGED <<cacheVars, keyReq, lruOps>>

\* GET /info
DramaInfo(r, id) ==
  /\ FreeSlot(r)
  /\ IF id = Undefined
     THEN DramaReply(r, "info", 400)
     ELSE DramaAwait(r, "info")
  /\ UNCHANGED <<cacheVars, keyReq, lruOps>>

\* GET /watch
DramaWatch(r, episodeId, serverString) ==
  /\ FreeSlot(r)
  /\ IF episodeId = Undefined
     THEN DramaReply(r, "watch", 400)
     ELSE IF Truthy(serverString) /\ serverString.s \notin KnownServers
     THEN DramaReply(r, "watch", 400)
     ELSE DramaAwait(r, "watch")
  /\ UNCHANGED <<cacheVars, keyReq, lruOps>>

\* GET /servers
DramaServers(r, episodeId) ==
  /\ FreeSlot(r)
  /\ IF episodeId = Undefined
     THEN DramaReply(r, "servers", 400)
     ELSE DramaAwait(r, "servers")
  /\ UNCHANGED <<cacheVars, keyReq, lruOps>>

\* the upstream fetch resolves: reply.status(200).send(res)
DramaUpstreamResolve(r) ==
  /\ dramaReq[r].pc = "awaitUpstream"
  /\ dramaReq' = [dramaReq EXCEPT ![r].pc = "done",
                                  ![r].sent = Append(@, 200)]
  /\ UNCHANGED <<cacheVars, keyReq, lruOps>>

\* the upstream fetch rejects.  In a try/catch route the catch block sends
\* 500.  In a .catch route the chained handler sends 404 and its return
\* value becomes res: the await resolves and reply.status(200).send(res)
\* runs as well.
DramaUpstreamReject(r) ==
  /\ dramaReq[r].pc = "awaitUpstream"
  /\ dramaReq' = [dramaReq EXCEPT
       ![r].pc = "done",
       ![r].sent = IF dramaReq[r].route \in CatchChainRoutes
                   THEN @ \o <<404, 200>>
                   ELSE Append(@, 500)]
  /\ UNCHANGED <<cacheVars, keyReq, lruOps>>

InitReply == Init /\ ~redisCfg

NextReply ==
  \/ \E r \in ReqIds : DramaRoot(r)
  \/ \E r \in ReqIds, route \in TryCatchRoutes : DramaList(r, route)
  \/ \E r \in ReqIds, id \in RawId : DramaInfo(r, id)
  \/ \E r \in ReqIds, e \in RawId, sv \in RawServer : DramaWatch(r, e, sv)
  \/ \E r \in ReqIds, e \in RawId : DramaServers(r, e)
  \/ \E r \in ReqIds : DramaUpstreamResolve(r)
  \/ \E r \in ReqIds : DramaUpstreamReject(r)
  \/ \E r \in ReqIds, k \in SeededKeys : FreeSlot(r) /\ Start(r, k)
  \/ \E r \in ReqIds, v \in Values : FetchResolve(r, v)
  \/ \E r \in ReqIds : FetchReject(r)

SpecReply == InitReply /\ [][NextReply]_vars

(***************************************************************************)
(* Vocabulary of the claims.                                               *)
(***************************************************************************)
Done(r) == req[r].pc = "done"

\* the call returned a value to its caller (no error reached the caller)
Returned(r) == Done(r) /\ hist[r].err = "none" /\ req[r].status = 200

\* the call ran the loader, which returned, and the call returned the
\* loader's value with label MISS, the LocalTier holding that value
ServedByLoader(r) ==
  /\ hist[r].loaderCalls = 1
  /\ hist[r].err \in {"none", "loader"}
  /\ Returned(r) =>
       /\ req[r].xcache = "MISS"
       /\ req[r].sends = 1
       /\ req[r].body = hist[r].loaded
       /\ req[r].body \in Values
       /\ hist[r].memAfter = req[r].body

(***************************************************************************)
(* C1 -- Graceful degradation: a resolve call whose LocalTier lookup       *)
(* missed and whose SharedTier get failed still invokes the loader, and    *)
(* when the loader returns it populates the LocalTier and returns the      *)
(* loader's value with label MISS; only a loader failure may reach the     *)
(* caller.                                                                 *)
(***************************************************************************)
C1_GracefulDegradation ==
  \A r \in ReqIds :
    (hist[r].getFailed /\ hist[r].memAtBeg = Undefined) => ServedByLoader(r)

(***************************************************************************)
(* C2 -- Deserialization failure is a miss: a resolve call whose           *)
(* SharedTier get returned bytes that JSON.parse rejects invokes the       *)
(* loader and returns its value with label MISS; the parse failure never   *)
(* reaches the caller.                                                     *)
(***************************************************************************)
C2_DeserializationFailureIsMiss ==
  \A r \in ReqIds :
    (hist[r].gotRaw.t = "str" /\ ~Parses(hist[r].gotRaw.s))
      => ServedByLoader(r)

\* r1 and r2 are the only calls made so far, for the same key, r2 made
\* after r1 had completed
Sequential(r1, r2) ==
  /\ r1 < r2
  /\ Done(r1) /\ Done(r2)
  /\ req[r1].key = req[r2].key
  /\ hist[r2].quietAtBeg
  /\ \A q \in ReqIds \ {r1, r2} : req[q].pc = "idle"

\* both tiers were empty for the call's key when it began
EmptyAtBeg(r) ==
  /\ hist[r].memAtBeg = Undefined
  /\ hist[r].shAtBeg = Null
  /\ ~hist[r].setsAtBeg

(***************************************************************************)
(* C3 -- Read-through correctness: two resolve calls with the same key,    *)
(* one after the other from empty tiers, with no other call, no time       *)
(* passing and a loader that returns a value, invoke the loader exactly    *)
(* once in total, and the second call returns the first call's loader      *)
(* value, served from a tier.                                              *)
(***************************************************************************)
C3_ReadThrough ==
  \A r1, r2 \in ReqIds :
    ( /\ Sequential(r1, r2)
      /\ EmptyAtBeg(r1)
      /\ now = 0
      /\ hist[r1].err # "loader" /\ hist[r2].err # "loader" )
    => /\ hist[r1].loaderCalls + hist[r2].loaderCalls = 1
       /\ Returned(r2)
       /\ req[r2].body = hist[r1].loaded
       /\ req[r2].xcache \in {"HIT-MEMORY", "HIT-REDIS"}

\* C3 restricted to first calls whose SharedTier get did not fail: holds
C3_ReadThroughWhenGetSucceeds ==
  \A r1, r2 \in ReqIds :
    ( /\ Sequential(r1, r2)
      /\ EmptyAtBeg(r1)
      /\ now = 0
      /\ hist[r1].err # "loader" /\ hist[r2].err # "loader"
      /\ ~hist[r1].getFailed )
    => /\ hist[r1].loaderCalls + hist[r2].loaderCalls = 1
       /\ Returned(r2)
       /\ req[r2].body = hist[r1].loaded
       /\ req[r2].body \in Values
       /\ req[r2].xcache = "HIT-MEMORY"

(***************************************************************************)
(* C4 -- Local-tier hit short-circuits: a resolve call that begins while   *)
(* the LocalTier holds a non-expired entry for its key returns that entry's*)
(* value with label HIT-MEMORY at once, without querying the SharedTier    *)
(* and without invoking the loader.                                        *)
(***************************************************************************)
C4_LocalHitShortCircuits ==
  \A r \in ReqIds :
    (req[r].pc # "idle" /\ hist[r].memAtBeg # Undefined)
    => /\ Returned(r)
       /\ req[r].xcache = "HIT-MEMORY"
       /\ req[r].body = hist[r].memAtBeg
       /\ req[r].sends = 1
       /\ hist[r].redisGets = 0
       /\ hist[r].loaderCalls = 0
       /\ hist[r].redisSets = 0

C4_Witness ==
  \E r \in ReqIds :
    /\ hist[r].memAtBeg \in Values
    /\ req[r].xcache = "HIT-MEMORY"
    /\ redisCfg

(***************************************************************************)
(* C5 -- Tier promotion: a resolve call that finds nothing in the          *)
(* LocalTier and to which the SharedTier returns the serialized value v    *)
(* returns v with label HIT-REDIS without invoking the loader and leaves v *)
(* in the LocalTier; the next call for that key, made right after it,      *)
(* returns v with label HIT-MEMORY.                                        *)
(***************************************************************************)
SharedHit(r, v) ==
  /\ Done(r)
  /\ hist[r].memAtBeg = Undefined
  /\ hist[r].gotRaw = Str(ValueText[v])

C5_TierPromotion ==
  \A r1 \in ReqIds, v \in Values :
    SharedHit(r1, v)
    => /\ Returned(r1)
       /\ req[r1].xcache = "HIT-REDIS"
       /\ req[r1].body = v
       /\ hist[r1].loaderCalls = 0
       /\ hist[r1].memAfter = v
       /\ \A r2 \in ReqIds :
            (Sequential(r1, r2) /\ now = 0)
            => /\ Returned(r2)
               /\ req[r2].xcache = "HIT-MEMORY"
               /\ req[r2].body = v
               /\ hist[r2].loaderCalls = 0

C5_Witness ==
  \E r1, r2 \in ReqIds, v \in Values :
    /\ SharedHit(r1, v)
    /\ Sequential(r1, r2)
    /\ now = 0
    /\ req[r2].xcache = "HIT-MEMORY"

(***************************************************************************)
(* C6 -- Loader failure is never cached: when the loader fails the error   *)
(* reaches the caller, the call creates no entry in either tier, and the   *)
(* next call for that key, the tiers still empty, invokes the loader       *)
(* again.                                                                  *)
(***************************************************************************)
\* no other call was in flight while r ran
Alone(r) ==
  /\ hist[r].quietAtBeg
  /\ \A q \in ReqIds : q > r => req[q].pc = "idle"

LoaderFailed(r) == Done(r) /\ hist[r].err = "loader"

NothingCachedBy(r) ==
  /\ req[r].status = 500 /\ req[r].body = ErrorMessage /\ req[r].sends = 1
  /\ hist[r].memSets = 0
  /\ hist[r].redisSets = 0 /\ redisSet[r] = NoCmd
  /\ (Alone(r) /\ hist[r].memAtBeg = Undefined)
       => hist[r].memAfter = Undefined

C6_LoaderFailureNotCached ==
  \A r1 \in ReqIds :
    LoaderFailed(r1)
    => /\ NothingCachedBy(r1)
       /\ \A r2 \in ReqIds :
            (Sequential(r1, r2) /\ EmptyAtBeg(r2))
            => hist[r2].loaderCalls = 1

\* C6 restricted to next calls whose SharedTier get did not fail: holds
C6_LoaderFailureNotCachedWhenGetSucceeds ==
  \A r1 \in ReqIds :
    LoaderFailed(r1)
    => /\ NothingCachedBy(r1)
       /\ \A r2 \in ReqIds :
            (Sequential(r1, r2) /\ EmptyAtBeg(r2) /\ ~hist[r2].getFailed)
            => hist[r2].loaderCalls = 1

(***************************************************************************)
(* C7 -- Shared-tier write is fire-and-forget: when the loader succeeded   *)
(* and the SharedTier set then fails, the call has returned the loader's   *)
(* value with label MISS, the LocalTier was populated, and the failure     *)
(* does not reach the caller.                                              *)
(***************************************************************************)
C7_SharedWriteFireAndForget ==
  \A r \in ReqIds :
    hist[r].setFailed
    => /\ Returned(r)
       /\ req[r].xcache = "MISS"
       /\ req[r].sends = 1
       /\ req[r].body = hist[r].loaded
       /\ req[r].body \in Values
       /\ hist[r].memAfter = req[r].body

C7_Witness ==
  \E r \in ReqIds : hist[r].setFailed /\ Returned(r) /\ req[r].xcache = "MISS"

(***************************************************************************)
(* C8 -- Disabled shared tier: with fastify.redis null no call performs a  *)
(* SharedTier get or set; a LocalTier miss goes straight to the loader,    *)
(* whose value is stored in the LocalTier only and returned with label     *)
(* MISS, and no error other than the loader's arises.                      *)
(***************************************************************************)
C8_DisabledSharedTier ==
  ~redisCfg =>
    /\ \A k \in Keys : redisStore[k] = NoEntry
    /\ \A r \in ReqIds :
         /\ hist[r].redisGets = 0
         /\ hist[r].redisSets = 0
         /\ redisSet[r] = NoCmd
         /\ hist[r].err \in {"none", "loader"}
         /\ (req[r].pc # "idle" /\ hist[r].memAtBeg = Undefined)
              => ServedByLoader(r)

C8_Witness ==
  /\ ~redisCfg
  /\ \E r \in ReqIds :
       hist[r].memAtBeg = Undefined /\ Returned(r) /\ req[r].xcache = "MISS"

(***************************************************************************)
(* C9 -- Key determinism: for one route name, two parameter bags holding   *)
(* the same keys with the same values, whatever the insertion order, get   *)
(* the same cache key from getCacheKey.                                    *)
(***************************************************************************)
PropSet(params) == { params.props[i] : i \in 1..Len(params.props) }

HasKey(s) == keyReq[s].status = 200

C9_KeyDeterminism ==
  \A a, b \in Slots :
    ( /\ HasKey(a) /\ HasKey(b)
      /\ keyReq[a].route = keyReq[b].route
      /\ PropSet(keyReq[a].params) = PropSet(keyReq[b].params) )
    => keyReq[a].cacheKey = keyReq[b].cacheKey

\* C9 restricted to bags assembled in the same insertion order: holds
C9_KeyDeterminismSameOrder ==
  \A a, b \in Slots :
    ( /\ HasKey(a) /\ HasKey(b)
      /\ keyReq[a].route = keyReq[b].route
      /\ keyReq[a].params = keyReq[b].params )
    => keyReq[a].cacheKey = keyReq[b].cacheKey

(***************************************************************************)
(* C10 -- Default normalization in keys: two requests to the same route    *)
(* that differ only in that one passes an optional parameter explicitly    *)
(* with its default value (page=1, type=all, timePeriod=day) where the     *)
(* other omits it get the same cache key; a parameter without default      *)
(* counts as given only when it is present.                                *)
(***************************************************************************)
RawFields ==
  {"query", "id", "episodeId", "page", "type", "provider", "qid",
   "timePeriod"}

\* the text a handler's default stands for, "" where it has none
DefaultText(route, field) ==
  CASE field = "page" /\ route \in {"search", "trending"} ->
         ToString(DefaultPage)
    [] field = "type" /\ route = "trending" -> "all"
    [] field = "timePeriod" /\ route = "trending" -> "day"
    [] OTHER -> ""

\* the parameter as requested: its text, or the default's when omitted
Requested(s, field) ==
  IF keyReq[s].raw[field] = Undefined
  THEN [given |-> DefaultText(keyReq[s].route, field) # "",
        text |-> DefaultText(keyReq[s].route, field)]
  ELSE [given |-> TRUE, text |-> keyReq[s].raw[field].s]

HandledRoute(s) == HasKey(s) /\ keyReq[s].raw # NoRaw

C10_DefaultNormalization ==
  \A a, b \in Slots :
    ( /\ HandledRoute(a) /\ HandledRoute(b)
      /\ keyReq[a].route = keyReq[b].route
      /\ \A f \in RawFields : Requested(a, f) = Requested(b, f) )
    => keyReq[a].cacheKey = keyReq[b].cacheKey

\* C10 for the parameters other than page: holds
C10_DefaultNormalizationExceptPage ==
  \A a, b \in Slots :
    ( /\ HandledRoute(a) /\ HandledRoute(b)
      /\ keyReq[a].route = keyReq[b].route
      /\ keyReq[a].raw.page = keyReq[b].raw.page
      /\ \A f \in RawFields : Requested(a, f) = Requested(b, f) )
    => keyReq[a].cacheKey = keyReq[b].cacheKey

(***************************************************************************)
(* C11 -- No single-flight: every resolve call that observed a miss in     *)
(* both tiers invokes the loader itself, exactly once, whatever other      *)
(* calls for the same key are in flight, and when its loader returns it    *)
(* populates the tiers with its own loader result (one LocalTier set, one  *)
(* SharedTier set carrying its value) and returns that value as MISS.      *)
(***************************************************************************)
\* the call found nothing for its key in the LocalTier nor in the SharedTier
ObservedMiss(r) ==
  /\ req[r].pc \in {"awaitFetch", "done"}
  /\ hist[r].memAtBeg = Undefined
  /\ redisCfg => hist[r].gotRaw = Null

PopulatedOwn(r) ==
  /\ req[r].xcache = "MISS"
  /\ req[r].body = hist[r].loaded
  /\ hist[r].loaded \in Values
  /\ hist[r].memSets = 1
  /\ hist[r].memAfter = hist[r].loaded
  /\ hist[r].redisSets = (IF redisCfg THEN 1 ELSE 0)
  /\ redisSet[r] # NoCmd
       => redisSet[r] = [key |-> req[r].key,
                         raw |-> ValueText[hist[r].loaded]]

C11_NoSingleFlight ==
  \A r \in ReqIds :
    ObservedMiss(r)
    => /\ hist[r].loaderCalls = 1
       /\ Returned(r) => PopulatedOwn(r)

\* two calls for one key, the second begun while the first was in flight,
\* both missed, both loaded (different values) and both populated
C11_Witness ==
  \E r1, r2 \in ReqIds :
    /\ r1 < r2
    /\ req[r1].key = req[r2].key
    /\ ~hist[r2].quietAtBeg
    /\ ObservedMiss(r1) /\ ObservedMiss(r2)
    /\ Returned(r1) /\ Returned(r2)
    /\ hist[r1].loaderCalls + hist[r2].loaderCalls = 2
    /\ hist[r1].memSets + hist[r2].memSets = 2
    /\ hist[r1].loaded # hist[r2].loaded
    /\ redisCfg

(***************************************************************************)
(* C12 -- Last writer wins under concurrent misses: whenever a call        *)
(* populates after its loader returned, its value replaces whatever the    *)
(* LocalTier held for the key (one entry, no merge, no staleness check)    *)
(* and is the value of the SharedTier set it issues; whenever a SharedTier *)
(* set lands, its value replaces whatever the SharedTier held.  So in each *)
(* tier the value that remains is the one written last.                    *)
(***************************************************************************)
\* this step is r's populate: its loader returned and it stored the result
Populates(r) ==
  req[r].pc = "awaitFetch" /\ req'[r].pc = "done" /\ req'[r].status = 200

\* this step is r's SharedTier set reaching the server
SetLands(r) ==
  redisSet[r] # NoCmd /\ redisSet'[r] = NoCmd /\ ~hist'[r].setFailed

EntriesFor(cache, k) == { i \in 1..Len(cache) : cache[i].key = k }

LastWriterWinsStep ==
  \A r \in ReqIds :
    /\ Populates(r)
       => /\ Cardinality(EntriesFor(memoryCache', req[r].key)) = 1
          /\ FreshValue(memoryCache', req[r].key, now') = req'[r].body
          /\ redisCfg
               => redisSet'[r] = [key |-> req[r].key,
                                  raw |-> ValueText[req'[r].body]]
    /\ SetLands(r)
       => redisStore'[redisSet[r].key] =
            [raw |-> redisSet[r].raw, exp |-> now + CACHE_TTL]

RECURSIVE RefState(_)
RefState(ops) ==
  IF ops = <<>>
  THEN [present |-> {}, used |-> [k \in LruKeys |-> 0],
        value |-> [k \in LruKeys |-> Undefined]]
  ELSE LET n == Len(ops)
           o == ops[n]
           s == RefState(SubSeq(ops, 1, n - 1))
           touched == [s.used EXCEPT ![o.key] = n]
           stored == [s.value EXCEPT ![o.key] = o.got]
           victim == CHOOSE k \in s.present :
                       \A j \in s.present : s.used[k] <= s.used[j]
       IN IF o.op = "get"
          THEN IF o.key \in s.present THEN [s EXCEPT !.used = touched] ELSE s
          ELSE IF o.key \in s.present
          THEN [s EXCEPT !.used = touched, !.value = stored]
          ELSE IF Cardinality(s.present) >= LruMax
          THEN [present |-> (s.present \ {victim}) \cup {o.key},
                used |-> touched, value |-> stored]
          ELSE [present |-> s.present \cup {o.key},
                used |-> touched, value |-> stored]

CachedKeys(cache) == { cache[i].key : i \in 1..Len(cache) }

\* what the last call, a get, should have returned
RefGot(ops) ==
  LET o == ops[Len(ops)]
      s == RefState(SubSeq(ops, 1, Len(ops) - 1))
  IN IF o.key \in s.present THEN s.value[o.key] ELSE Undefined

C13_LruBound ==
  /\ Len(memoryCache) <= LruMax
  /\ Cardinality(CachedKeys(memoryCache)) = Len(memoryCache)
  /\ CachedKeys(memoryCache) = RefState(lruOps).present
  /\ (lruOps # <<>> /\ lruOps[Len(lruOps)].op = "get")
       => lruOps[Len(lruOps)].got = RefGot(lruOps)

\* the scenario of the claim with max 2: set A, B, C (A evicted), get B,
\* set D (C evicted): B and D remain
C13_Witness ==
  /\ LruMax = 2
  /\ Len(lruOps) = 5
  /\ [i \in 1..5 |-> lruOps[i].op] = <<"set", "set", "set", "get", "set">>
  /\ [i \in 1..5 |-> lruOps[i].key] = <<1, 2, 3, 2, 4>>
  /\ lruOps[4].got # Undefined
  /\ CachedKeys(memoryCache) = {2, 4}
  /\ CachedKeys(memoryCache) = RefState(lruOps).present
  /\ RefState(SubSeq(lruOps, 1, 3)).present = {2, 3}

(***************************************************************************)
(* C14 -- LocalTier TTL expiry: the object stored in the LocalTier at     *)
(* time 0 is not returned by a lookup made after CACHE_TTL seconds,        *)
(* whatever hits it had in between; a resolve call that begins then with   *)
(* the entry still in the cache does not return HIT-MEMORY: the entry is   *)
(* removed and the call goes on to the loader.                             *)
(***************************************************************************)
\* this step is the beginning of call r (its LocalTier lookup)
Begins(r) == req[r].pc = "idle" /\ req'[r].pc # "idle"

HoldsFor(cache, k, v) ==
  \E i \in 1..Len(cache) : cache[i].key = k /\ cache[i].value = v

TtlExpiryStep ==
  \A r \in ReqIds :
    Begins(r) =>
      /\ (req'[r].xcache = "HIT-MEMORY" /\ req'[r].body = UpstreamAt(0))
           => now <= CACHE_TTL
      /\ (now > CACHE_TTL /\ HoldsFor(memoryCache, req'[r].key, UpstreamAt(0)))
           => /\ req'[r].pc = "awaitFetch"
              /\ req'[r].xcache = "MISS"
              /\ hist'[r].loaderCalls = 1
              /\ MemIndex(memoryCache', req'[r].key) = 0

C14_TtlExpiry == [][TtlExpiryStep]_vars

\* the object of time 0 was served from the LocalTier, and after CACHE_TTL
\* a call for its key found the entry expired: the entry is gone and the
\* call awaits the loader
C14_Witness ==
  \E q, r \in ReqIds :
    /\ q # r
    /\ req[q].xcache = "HIT-MEMORY" /\ req[q].body = UpstreamAt(0)
    /\ req[r].key = req[q].key
    /\ req[r].pc = "awaitFetch"
    /\ hist[r].memAtBeg = Undefined
    /\ now > CACHE_TTL
    /\ MemIndex(memoryCache, req[r].key) = 0

(***************************************************************************)
(* C15 -- Tier label accuracy: every resolve call that returns a value     *)
(* carries one X-Cache label out of HIT-MEMORY, HIT-REDIS and MISS, and    *)
(* the label names what produced the value: HIT-MEMORY iff the value was   *)
(* read from the LocalTier, HIT-REDIS iff it was read from the SharedTier, *)
(* MISS iff this call invoked the loader.                                  *)
(***************************************************************************)
\* the returned value is the one the LocalTier held when the call began
FromLocalTier(r) ==
  /\ hist[r].memAtBeg # Undefined
  /\ req[r].body = hist[r].memAtBeg

\* the returned value is the parse of the text the SharedTier get returned
FromSharedTier(r) ==
  /\ hist[r].memAtBeg = Undefined
  /\ hist[r].gotRaw.t = "str"
  /\ Parses(hist[r].gotRaw.s)
  /\ req[r].body = JSONparse(hist[r].gotRaw.s)

\* the returned value is the one this call's loader returned
FromLoader(r) ==
  /\ hist[r].loaderCalls = 1
  /\ hist[r].loaded \in Values
  /\ req[r].body = hist[r].loaded

C15_TierLabelAccuracy ==
  \A r \in ReqIds :
    Returned(r)
    => /\ req[r].xcache \in {"HIT-MEMORY", "HIT-REDIS", "MISS"}
       /\ req[r].xcache = "HIT-MEMORY" <=> FromLocalTier(r)
       /\ req[r].xcache = "HIT-REDIS" <=> FromSharedTier(r)
       /\ req[r].xcache = "MISS" <=> FromLoader(r)
       /\ req[r].xcache = "MISS" <=> hist[r].loaderCalls > 0

C15_Witness ==
  \E r1, r2 \in ReqIds :
    /\ Returned(r1) /\ req[r1].xcache = "HIT-REDIS" /\ FromSharedTier(r1)
    /\ Returned(r2) /\ req[r2].xcache = "MISS" /\ FromLoader(r2)

(***************************************************************************)
(* C16 -- Key separation, as claimed: two requests that differ in route    *)
(* name or in the value of at least one parameter, as requested (the text  *)
(* given, or the default's when omitted), get different cache keys.        *)
(***************************************************************************)
C16_KeySeparationOfRequests ==
  \A a, b \in Slots :
    ( /\ HandledRoute(a) /\ HandledRoute(b)
      /\ \/ keyReq[a].route # keyReq[b].route
         \/ \E f \in RawFields : Requested(a, f) # Requested(b, f) )
    => keyReq[a].cacheKey # keyReq[b].cacheKey

(***************************************************************************)
(* C16 -- Key separation, amended: two calls of getCacheKey that differ in *)
(* route name or in the value of at least one defined parameter of the bag *)
(* the handler built (after its defaults and validation) get different     *)
(* cache keys.                                                             *)
(***************************************************************************)
DefinedProps(params) == { p \in PropSet(params) : p.value # Undefined }

C16_KeySeparation ==
  \A a, b \in Slots :
    ( /\ HasKey(a) /\ HasKey(b)
      /\ \/ keyReq[a].route # keyReq[b].route
         \/ DefinedProps(keyReq[a].params) # DefinedProps(keyReq[b].params) )
    => keyReq[a].cacheKey # keyReq[b].cacheKey

\* two bags with the same parameters on different routes, and two requests
\* to /trending that differ in timePeriod only
C16_Witness ==
  \/ /\ HasKey("A") /\ HasKey("B")
     /\ keyReq["A"].route # keyReq["B"].route
     /\ keyReq["A"].params = keyReq["B"].params
     /\ DefinedProps(keyReq["A"].params) # {}
     /\ keyReq["A"].cacheKey # keyReq["B"].cacheKey
  \/ /\ HandledRoute("A") /\ HandledRoute("B")
     /\ keyReq["A"].route = "trending" /\ keyReq["B"].route = "trending"
     /\ keyReq["A"].raw.timePeriod = Str("day")
     /\ keyReq["B"].raw.timePeriod = Str("week")
     /\ keyReq["A"].raw.type = keyReq["B"].raw.type
     /\ keyReq["A"].raw.page = keyReq["B"].raw.page
     /\ keyReq["A"].cacheKey # keyReq["B"].cacheKey

(***************************************************************************)
(* C17 -- Value provenance under any interleaving: in every step, a value  *)
(* that enters the LocalTier or the SharedTier under key K, and a value    *)
(* that a resolve call for K returns, is the value that the loader of a    *)
(* call for K returned, or the value already held under K by a tier.  The  *)
(* tiers start with nothing but what the SharedTier already held, so no    *)
(* value loaded for one key is ever stored or returned under another.      *)
(***************************************************************************)
\* the value the cache holds for k, fresh or stale
MemValue(cache, k) ==
  IF MemIndex(cache, k) = 0 THEN Undefined
  ELSE cache[MemIndex(cache, k)].value

\* in this step the loader of call r, a call for k, returns v
LoaderReturns(r, k, v) ==
  /\ req[r].pc = "awaitFetch" /\ req[r].key = k
  /\ hist[r].loaderCalls = 1
  /\ hist[r].loaded = Undefined /\ hist'[r].loaded = v
  /\ v \in Values

\* v was loaded by call r, a call for k
LoadedBy(r, k, v) ==
  req[r].key = k /\ hist[r].loaded = v /\ v \in Values

\* the SharedTier serves v under k
SharedHolds(k, v) ==
  /\ RedisGetValue(redisStore, k, now) # Null
  /\ redisStore[k].raw = ValueText[v]

ProvenanceStep ==
  /\ \A k \in Keys :
       LET v == MemValue(memoryCache', k)
       IN (v # Undefined /\ v # MemValue(memoryCache, k))
          => \/ \E r \in ReqIds : LoaderReturns(r, k, v)
             \/ SharedHolds(k, v)
  /\ \A k \in Keys :
       redisStore'[k] # redisStore[k]
       => \E r \in ReqIds, v \in Values :
            /\ LoadedBy(r, k, v)
            /\ redisSet[r] = [key |-> k, raw |-> ValueText[v]]
            /\ redisStore'[k].raw = ValueText[v]
  /\ \A r \in ReqIds :
       redisSet'[r] # redisSet[r] /\ redisSet'[r] # NoCmd
       => \E v \in Values :
            /\ LoaderReturns(r, req[r].key, v)
            /\ redisSet'[r] = [key |-> req[r].key, raw |-> ValueText[v]]
  /\ \A r \in ReqIds :
       (req[r].pc # "done" /\ req'[r].pc = "done" /\ req'[r].status = 200)
       => LET k == req'[r].key
              v == req'[r].body
          IN \/ LoaderReturns(r, k, v)
             \/ SharedHolds(k, v)
             \/ MemValue(memoryCache, k) = v

C17_ValueProvenance == [][ProvenanceStep]_vars

\* two calls in flight together for different keys loaded different
\* values; each tier holds each value under its own key
C17_Witness ==
  \E r1, r2 \in ReqIds :
    /\ req[r1].key # req[r2].key
    /\ ~hist[r2].quietAtBeg
    /\ Returned(r1) /\ Returned(r2)
    /\ hist[r1].loaded \in Values /\ hist[r2].loaded \in Values
    /\ hist[r1].loaded # hist[r2].loaded
    /\ \A r \in {r1, r2} :
         /\ MemValue(memoryCache, req[r].key) = hist[r].loaded
         /\ redisStore[req[r].key].raw = ValueText[hist[r].loaded]
         /\ req[r].body = hist[r].loaded

(***************************************************************************)
(* C18 -- Hits do not write the shared tier: the step in which a call      *)
(* returns with HIT-MEMORY leaves the SharedTier and the LocalTier's       *)
(* entries (keys, values, ages) as they were, only their recency order may *)
(* change; the step in which a call returns with HIT-REDIS changes the     *)
(* LocalTier entry of its key only; neither issues a SharedTier set, then  *)
(* or later, so no hit rewrites a SharedTier entry or extends its expiry.  *)
(***************************************************************************)
\* in this step call r returns a value with the given label
ReturnsWith(r, label) ==
  /\ req[r].pc # "done" /\ req'[r].pc = "done"
  /\ req'[r].status = 200 /\ req'[r].xcache = label

Entries(cache) == { cache[i] : i \in 1..Len(cache) }

SharedTierUntouched ==
  redisStore' = redisStore /\ redisSet' = redisSet

HitsDoNotWriteStep ==
  \A r \in ReqIds :
    /\ ReturnsWith(r, "HIT-MEMORY")
       => /\ SharedTierUntouched
          /\ Entries(memoryCache') = Entries(memoryCache)
    /\ ReturnsWith(r, "HIT-REDIS")
       => /\ SharedTierUntouched
          /\ { e \in Entries(memoryCache') : e.key # req[r].key }
               = { e \in Entries(memoryCache) : e.key # req[r].key }
          /\ MemValue(memoryCache', req[r].key) = req'[r].body
    /\ req'[r].xcache \in {"HIT-MEMORY", "HIT-REDIS"}
       => hist'[r].redisSets = 0 /\ redisSet'[r] = NoCmd

C18_HitsDoNotWrite == [][HitsDoNotWriteStep]_vars

\* a call was served from the SharedTier and the next one from the
\* LocalTier, and the SharedTier entry is the one present from the start
C18_Witness ==
  \E r1, r2 \in ReqIds :
    /\ Returned(r1) /\ req[r1].xcache = "HIT-REDIS"
    /\ Returned(r2) /\ req[r2].xcache = "HIT-MEMORY"
    /\ req[r1].key = req[r2].key
    /\ redisStore[req[r1].key] =
         [raw |-> ValueText[req[r1].body], exp |-> CACHE_TTL]
    /\ \A r \in ReqIds : redisSet[r] = NoCmd /\ hist[r].redisSets = 0

(***************************************************************************)
(* C19 -- Bounded staleness: with both ttls equal to CACHE_TTL, a value    *)
(* returned with HIT-MEMORY or HIT-REDIS was returned by its loader at     *)
(* most 2 * CACHE_TTL seconds earlier: the object loaded at time 0 is not  *)
(* served from a tier after time 2 * CACHE_TTL, although a promotion from  *)
(* the SharedTier restarts its LocalTier age.                              *)
(***************************************************************************)
BoundedStalenessStep ==
  \A r \in ReqIds :
    ( /\ \/ ReturnsWith(r, "HIT-MEMORY")
         \/ ReturnsWith(r, "HIT-REDIS")
      /\ req'[r].body = UpstreamAt(0) )
    => now <= CACHE_TTL + CACHE_TTL

C20_ExactlyOneResponse ==
  \A r \in ReqIds :
    /\ dramaReq[r].pc = "done" => Len(dramaReq[r].sent) = 1
    /\ Done(r) => req[r].sends = 1

\* C20 for the routes other than dramacool /info, /watch and /servers: holds
C20_ExactlyOneResponseElsewhere ==
  \A r \in ReqIds :
    /\ (dramaReq[r].pc = "done" /\ dramaReq[r].route \notin CatchChainRoutes)
         => Len(dramaReq[r].sent) = 1
    /\ (dramaReq[r].pc = "done" /\ dramaReq[r].sent[1] # 404)
         => Len(dramaReq[r].sent) = 1
    /\ Done(r) => req[r].sends = 1

====
